---- MODULE Spec2Model ----
(***************************************************************************)
(* KB-Tracker: the game-session reconstruction pipeline.                   *)
(*                                                                         *)
(*   diffSnapshots    (stateDiffer.ts)   snapshot differencing             *)
(*   parseLogEntries  (logParser.ts)     activation events from the log    *)
(*   GameRecorder     (gameRecorder.ts)  per-game recorder state machine   *)
(*                                                                         *)
(* Strings the code only compares are TLA+ strings; text the code searches *)
(* (log message parts) is a sequence of one-character strings.  A card     *)
(* pile is the set of the uuids of its cards; where the code walks a pile  *)
(* in list order the model walks it in the order of UuidOrder.             *)
(***************************************************************************)
EXTENDS Integers, Sequences, FiniteSets, TLC

\* ------------------------------------------------------------------------
\* Bounds
\* ------------------------------------------------------------------------
\* number of ingest calls made on the recorder in one behaviour
MaxIngest == 3
\* number of piles one card instance is listed in at once in a diffed snapshot
MaxZones == 2
\* largest decrease of a deck count between two diffed snapshots
MaxDeckDrop == 2

\* ------------------------------------------------------------------------
\* Values standing for null / undefined
\* ------------------------------------------------------------------------
Null == "null"
NoNum == -1

Max(a, b) == IF a >= b THEN a ELSE b
Min(a, b) == IF a <= b THEN a ELSE b

\* ------------------------------------------------------------------------
\* Cards
\* ------------------------------------------------------------------------
UuidOrder == <<"u1", "u2", "u3">>
Uuids == {UuidOrder[i] : i \in DOMAIN UuidOrder}

\* CardSummary.id of the card instance with a given uuid; u1 and u2 are two
\* copies of the same card, u3 carries no id
CardIdOf(u) == CASE u = "u1" -> "han-solo"
                 [] u = "u2" -> "han-solo"
                 [] OTHER -> Null

\* card.id ?? card.uuid
cardIdOrUuid(u) == IF CardIdOf(u) = Null THEN u ELSE CardIdOf(u)

\* the members of a set of uuids, in list order
InOrder(S) == SelectSeq(UuidOrder, LAMBDA u : u \in S)

\* ------------------------------------------------------------------------
\* Player state summaries
\* ------------------------------------------------------------------------
\* piles: "full"    cardPiles with every pile
\*        "noArena" cardPiles without groundArena / spaceArena
\*        "none"    no cardPiles at all
PS(name, id, deck, piles, hand, ground, space, res, discard, hp, damage) ==
  [name |-> name, id |-> id, numCardsInDeck |-> deck, piles |-> piles,
   hand |-> hand, groundArena |-> ground, spaceArena |-> space,
   resources |-> res, discard |-> discard, baseHp |-> hp, baseDamage |-> damage]

allArena(p) == p.groundArena \cup p.spaceArena

\* ------------------------------------------------------------------------
\* stateDiffer.ts
\* ------------------------------------------------------------------------
CardEvent(ctx, playerId, playerName, cardId, metric, count, uuid) ==
  [gameId |-> ctx.gameId, roundNumber |-> ctx.roundNumber,
   playerId |-> playerId, playerName |-> playerName,
   cardId |-> cardId, metric |-> metric, count |-> count,
   uuid |-> uuid]   \* uuid: the card instance the event was derived from
                     \* (not a field of the code's CardEvent)

leftHand(p0, p1) == p0.hand \ p1.hand

newInArena(p0, p1, u) == u \notin allArena(p0) /\ u \in allArena(p1)
newInRes(p0, p1, u) == u \notin p0.resources /\ u \in p1.resources
newInDiscard(p0, p1, u) == u \in p1.discard /\ u \notin p0.discard

\* the first loop over leftHand: which branch a uuid takes
playedBranch(p0, p1, u) ==
  IF newInArena(p0, p1, u) THEN "arena"
  ELSE IF newInRes(p0, p1, u) THEN "resource"
  ELSE IF newInDiscard(p0, p1, u) THEN "event"
  ELSE "unknown"

playedFromHandToDiscard(p0, p1) ==
  {u \in leftHand(p0, p1) : playedBranch(p0, p1, u) = "event"}

playedEvents(p0, p1, playerId, ctx) ==
  LET us == InOrder({u \in leftHand(p0, p1) :
                       playedBranch(p0, p1, u) \in {"arena", "event"}})
  IN [i \in DOMAIN us |->
        CardEvent(ctx, playerId, p1.name, cardIdOrUuid(us[i]), "played", 1, us[i])]

resourcedEvents(p0, p1, playerId, ctx) ==
  LET us == InOrder({u \in leftHand(p0, p1) : newInRes(p0, p1, u)})
  IN [i \in DOMAIN us |->
        CardEvent(ctx, playerId, p1.name, cardIdOrUuid(us[i]), "resourced", 1, us[i])]

discardedEvents(p0, p1, playerId, ctx) ==
  LET us == InOrder({u \in p1.discard :
                       /\ u \notin p0.discard
                       /\ u \notin playedFromHandToDiscard(p0, p1)})
  IN [i \in DOMAIN us |->
        CardEvent(ctx, playerId, p1.name, cardIdOrUuid(us[i]), "discarded", 1, us[i])]

\* (p.numCardsInDeck ?? 0)
deckOf(p) == IF p.numCardsInDeck = NoNum THEN 0 ELSE p.numCardsInDeck

drawnEvents(p0, p1, playerId, ctx) ==
  LET deckDecrease == deckOf(p0) - deckOf(p1)
      newInHand == InOrder(p1.hand \ p0.hand)
  IN IF deckDecrease <= 0 THEN <<>>
     ELSE IF Len(newInHand) > 0
       THEN [i \in DOMAIN newInHand |->
               CardEvent(ctx, playerId, p1.name, cardIdOrUuid(newInHand[i]),
                         "drawn", 1, newInHand[i])]
       ELSE <<CardEvent(ctx, playerId, p1.name, "__unknown__", "drawn",
                        deckDecrease, Null)>>

\* the events of one iteration of the loop over the players of `next`
diffPlayer(p0, p1, playerId, ctx) ==
  playedEvents(p0, p1, playerId, ctx) \o resourcedEvents(p0, p1, playerId, ctx)
    \o discardedEvents(p0, p1, playerId, ctx) \o drawnEvents(p0, p1, playerId, ctx)

\* does the loop body run for this player (it passes every `continue`)
isDiffed(prev, next, ctx, k) ==
  /\ (ctx.localPlayerId = Null \/ k = ctx.localPlayerId)
  /\ k \in DOMAIN prev.players
  /\ k \in DOMAIN next.players
  /\ prev.players[k].piles # "none"
  /\ next.players[k].piles # "none"

\* allArena spreads p.cardPiles.groundArena: a TypeError when it is undefined
diffThrows(prev, next, ctx) ==
  \E i \in DOMAIN next.keys :
    /\ isDiffed(prev, next, ctx, next.keys[i])
    /\ \/ prev.players[next.keys[i]].piles = "noArena"
       \/ next.players[next.keys[i]].piles = "noArena"

RECURSIVE diffFrom(_, _, _, _)
diffFrom(prev, next, ctx, i) ==
  IF i > Len(next.keys) THEN <<>>
  ELSE LET k == next.keys[i]
       IN (IF isDiffed(prev, next, ctx, k)
             THEN diffPlayer(prev.players[k], next.players[k], k, ctx)
             ELSE <<>>) \o diffFrom(prev, next, ctx, i + 1)

\* defined when diffThrows is false
diffSnapshots(prev, next, ctx) == diffFrom(prev, next, ctx, 1)

\* ------------------------------------------------------------------------
\* logParser.ts
\* ------------------------------------------------------------------------
\* A chat entry is [alert, parts]: alert is TRUE for an IAlertMessage and
\* FALSE for a player-chat array.  A part is a text part [kind |-> "text",
\* text |-> <<characters>>] or a reference [kind |-> "obj", type, id, name].
Txt(cs) == [kind |-> "text", type |-> "", id |-> "", name |-> "", text |-> cs]
Obj(type, id, name) == [kind |-> "obj", type |-> type, id |-> id, name |-> name, text |-> <<>>]

\* the characters of the display names that occur in references
TextOf(name) ==
  CASE name = "Alice" -> <<"A", "l", "i", "c", "e">>
    [] name = "Bob" -> <<"B", "o", "b">>
    [] name = "Han Solo" -> <<"H", "a", "n", " ", "S", "o", "l", "o">>
    [] name = "Used Speeder" -> <<"U", "s", "e", "d", " ", "S", "p", "e", "e", "d", "e", "r">>
    [] OTHER -> <<>>

ACTIVATION_KEYWORDS ==
  << <<"a", "c", "t", "i", "v", "a", "t", "e", "d">>,
     <<"u", "s", "e", "s">>,
     <<"u", "s", "e", "d">>,
     <<"a", "b", "i", "l", "i", "t", "y">>,
     <<"e", "p", "i", "c", " ", "a", "c", "t", "i", "o", "n">> >>

LowerOf == [A |-> "a", B |-> "b", C |-> "c", D |-> "d", E |-> "e", F |-> "f",
            G |-> "g", H |-> "h", I |-> "i", J |-> "j", K |-> "k", L |-> "l",
            M |-> "m", N |-> "n", O |-> "o", P |-> "p", Q |-> "q", R |-> "r",
            S |-> "s", T |-> "t", U |-> "u", V |-> "v", W |-> "w", X |-> "x",
            Y |-> "y", Z |-> "z"]

toLowerCase(cs) == [i \in DOMAIN cs |-> IF cs[i] \in DOMAIN LowerOf THEN LowerOf[cs[i]] ELSE cs[i]]

\* String.prototype.includes
includes(text, kw) ==
  \E i \in 1..(Len(text) - Len(kw) + 1) : SubSeq(text, i, i + Len(kw) - 1) = kw

isAlertMessage(entry) == entry.alert
isCardObject(part) == part.kind = "obj" /\ part.type = "card"
isPlayerObject(part) == part.kind = "obj" /\ part.type = "player"

RECURSIVE joinParts(_, _)
joinParts(parts, i) ==
  IF i > Len(parts) THEN <<>>
  ELSE (IF parts[i].kind = "obj" THEN TextOf(parts[i].name) ELSE parts[i].text)
         \o (IF i < Len(parts) THEN <<" ">> ELSE <<>>) \o joinParts(parts, i + 1)

partsToText(parts) == toLowerCase(joinParts(parts, 1))

hasActivationKeyword(parts) ==
  \E j \in DOMAIN ACTIVATION_KEYWORDS : includes(partsToText(parts), ACTIVATION_KEYWORDS[j])

\* parts.find(isPlayerObject), parts.find(isCardObject): the first such part,
\* as a sequence of length 0 (undefined) or 1
findPlayerRef_Last(parts) ==
  LET hits == SelectSeq(parts, isPlayerObject) IN IF hits = <<>> THEN <<>> ELSE <<hits[Len(hits)]>>
findPlayerRef(parts) ==
  LET hits == SelectSeq(parts, isPlayerObject) IN IF hits = <<>> THEN <<>> ELSE <<hits[1]>>
findCardRef(parts) ==
  LET hits == SelectSeq(parts, isCardObject) IN IF hits = <<>> THEN <<>> ELSE <<hits[1]>>

emitsActivation(entry) ==
  /\ isAlertMessage(entry)
  /\ hasActivationKeyword(entry.parts)
  /\ findPlayerRef(entry.parts) # <<>>
  /\ findCardRef(entry.parts) # <<>>

activationOf(gameId, roundNumber, entry) ==
  LET playerRef == findPlayerRef(entry.parts)[1]
      cardRef == findCardRef(entry.parts)[1]
  IN CardEvent([gameId |-> gameId, roundNumber |-> roundNumber],
               playerRef.id, playerRef.name, cardRef.id, "activated", 1, Null)

parseLogEntries(gameId, roundNumber, entries) ==
  LET hits == SelectSeq(entries, emitsActivation)
  IN [i \in DOMAIN hits |-> activationOf(gameId, roundNumber, hits[i])]

\* ------------------------------------------------------------------------
\* gameRecorder.ts: the GameRecorder of game "g1"
\* ------------------------------------------------------------------------
VARIABLES
  prevState,                  \* <<>> (null) or <<the previous IGameState>>
  cardEvents,
  rawLog,
  players,                    \* <<>> (null) or <<local GamePlayer, opponent GamePlayer>>
  isLimitedFormat,
  format,
  roundNumber,
  completed,
  snapshots,
  currentRoundLogs,
  currentRoundBaseHpChanges,
  lastKnownYouHp,             \* NoNum for null
  lastKnownOppHp,
  prevPhase,                  \* Null before the first snapshot
  localPlayerId,              \* Null until resolved
  delivered,                  \* the GameRecords handed to onComplete, in order
  profile,                    \* the traffic profile the snapshots of this run are drawn from
  diffIn,                     \* <<>> or <<[prev, next, ctx]>>: the arguments of a diffSnapshots call
  diffOut,                    \* the outcome of that call
  frameIn,                    \* <<>> or <<a raw WebSocket frame and what it was built from>>
  frameOut,                   \* the outcome of parseFrame on that frame
  logIn,                      \* <<>> or <<a batch of IChatEntry>>: the entries of a parseLogEntries call
  logOut,                     \* the outcome of that call
  recorders,                  \* the registry: game id -> <<>> or <<the fields of its recorder>>
  trackingEnabled,
  forceFormat,
  sent,                       \* the GAME_RECORD_SAVED payloads handed to sendMessage, in order
  handoffs,                   \* per payload sent: "pending", "acked" or "failed"
  alone,                      \* per game id: the registry and the payloads sent had the
                              \* messages of that game been the only ones
  messages,                   \* number of window messages handled
  lastMsg,                    \* the last window message: what the listener did with it
  calls,                      \* number of ingest calls made
  lastCall                    \* the last ingest call: its argument, its outcome
                              \* and the recorder fields as they were before it

\* the recorder of game gameId and the account of the calls made on it
recorderVars == <<prevState, cardEvents, rawLog, players, isLimitedFormat, format,
                  roundNumber, completed, snapshots, currentRoundLogs,
                  currentRoundBaseHpChanges, lastKnownYouHp, lastKnownOppHp,
                  prevPhase, localPlayerId, delivered, profile, calls, lastCall>>
diffVars == <<diffIn, diffOut>>
frameVars == <<frameIn, frameOut>>
logVars == <<logIn, logOut>>

registryVars == <<recorders, trackingEnabled, forceFormat, sent, handoffs, alone, messages,
                  lastMsg>>

vars == <<recorderVars, diffVars, frameVars, logVars, registryVars>>

gameId == "g1"
LIMITED_DECK_SIZE_THRESHOLD == 35
DEFAULT_BASE_HP == 30

\* IGameState
GameState(id, keys, p1, p2, playerUpdate, phase, winners, newMessages, gameMode) ==
  [id |-> id, keys |-> keys,
   players |-> [k \in {keys[i] : i \in DOMAIN keys} |-> IF k = "p1" THEN p1 ELSE p2],
   playerUpdate |-> playerUpdate, phase |-> phase, winners |-> winners,
   newMessages |-> newMessages, gameMode |-> gameMode]

buildPlayer(playerId, state) ==
  [id |-> playerId, name |-> state.players[playerId].name,
   deckSize |-> state.players[playerId].numCardsInDeck]

\* Math.max(0, (ps.base?.hp ?? 30) - (ps.base?.damage ?? 0))
baseHpOf(ps) ==
  Max(0, (IF ps.baseHp = NoNum THEN DEFAULT_BASE_HP ELSE ps.baseHp)
         - (IF ps.baseDamage = NoNum THEN 0 ELSE ps.baseDamage))

\* Object.keys(state.players).find(k => k === hint || name === hint || id === hint)
resolveLocal(state) ==
  LET hits == SelectSeq(state.keys,
                LAMBDA k : \/ k = state.playerUpdate
                           \/ state.players[k].name = state.playerUpdate
                           \/ state.players[k].id = state.playerUpdate)
  IN IF hits = <<>> THEN Null ELSE hits[1]

\* the local and the opponent id the player pair is captured with
pairLocalId(state, lp) ==
  IF lp # Null /\ lp \in DOMAIN state.players THEN lp ELSE state.keys[1]

pairOppId(state, lp) ==
  LET others == SelectSeq(state.keys, LAMBDA id : id # pairLocalId(state, lp))
  IN IF others = <<>> THEN state.keys[2] ELSE others[1]

buildPlayerSnapshot(ps) ==
  [name |-> ps.name, totalResources |-> Cardinality(ps.resources),
   numCardsInDeck |-> ps.numCardsInDeck, baseHp |-> ps.baseHp,
   baseDamage |-> ps.baseDamage, groundArena |-> ps.groundArena,
   spaceArena |-> ps.spaceArena, hand |-> ps.hand, discard |-> ps.discard]

\* captureSnapshot returns null: <<>>, or the snapshot: <<snap>>
captureSnapshot(state, round, pl) ==
  IF pl = <<>> THEN <<>>
  ELSE IF pl[1].id \notin DOMAIN state.players \/ pl[2].id \notin DOMAIN state.players
    THEN <<>>
    ELSE <<[round |-> round, phase |-> state.phase,
            players |-> <<buildPlayerSnapshot(state.players[pl[1].id]),
                          buildPlayerSnapshot(state.players[pl[2].id])>>,
            logEntries |-> <<>>, baseHpChanges |-> <<>>]>>

\* buildPlayerSnapshot reads ps.cardPiles.resources.length: a TypeError when
\* the player has no cardPiles
captureThrows(state, pl) ==
  /\ pl # <<>>
  /\ pl[1].id \in DOMAIN state.players
  /\ pl[2].id \in DOMAIN state.players
  /\ \/ state.players[pl[1].id].piles = "none"
     \/ state.players[pl[2].id].piles = "none"

\* finalize(finalState): the record handed to onComplete
finalSnapshots(snaps, logs, hps) ==
  IF Len(snaps) = 0 THEN snaps
  ELSE [snaps EXCEPT ![Len(snaps)] =
          [@ EXCEPT !.logEntries = IF Len(logs) > 0 THEN @ \o logs ELSE @,
                    !.baseHpChanges = IF Len(hps) > 0 THEN @ \o hps ELSE @]]

winnerOf_First(winners) == winners[1]
winnerOf(winners) == IF Len(winners) = 1 THEN winners[1] ELSE Null

GameRecord(gid, finalState, fmt, limited, pl, round, events, log, snaps) ==
  [gameId |-> gid, format |-> fmt, isLimitedFormat |-> limited,
   players |-> pl, winner |-> winnerOf(finalState.winners), rounds |-> round,
   cardEvents |-> events, rawLog |-> log, snapshots |-> snaps]

\* new GameRecorder(gameId, onComplete): the fields of a recorder as constructed
NewRecorder(gid) ==
  [gameId |-> gid, prevState |-> <<>>, cardEvents |-> <<>>, rawLog |-> <<>>,
   players |-> <<>>, isLimitedFormat |-> FALSE, format |-> "premier",
   roundNumber |-> 0, completed |-> FALSE, snapshots |-> <<>>,
   currentRoundLogs |-> <<>>, currentRoundBaseHpChanges |-> <<>>,
   lastKnownYouHp |-> NoNum, lastKnownOppHp |-> NoNum, prevPhase |-> Null,
   localPlayerId |-> Null]

\* line 82: if (this.completed) return true
alreadyDone_Never(r) == FALSE
alreadyDone(r) == r.completed

\* line 88: if (!this.localPlayerId && state.playerUpdate)
needsResolution_Always(r, state) == state.playerUpdate # Null
needsResolution(r, state) == r.localPlayerId = Null /\ state.playerUpdate # Null

\* line 139: state.phase === 'action' && this.prevPhase !== 'action' && this.players
roundBoundary(state, prev, pl) ==
  state.phase = "action" /\ prev # "action" /\ pl # <<>>

\* line 202: state.winners && state.winners.length > 0 && this.players
gameEnded_NoPair(state, pl) == Len(state.winners) > 0
gameEnded(state, pl) == Len(state.winners) > 0 /\ pl # <<>>

\* lines 185-197: the events the try block appends; none when diffSnapshots throws
diffCaught_Partial(prev, next, ctx) == diffSnapshots(prev, next, ctx)
diffCaught(prev, next, ctx) ==
  IF diffThrows(prev, next, ctx) THEN <<>> ELSE diffSnapshots(prev, next, ctx)

\* lines 202-207: the value ingest returns once the snapshot is processed
ingestReturn_False(done) == "false"
ingestReturn(done) == IF done THEN "true" ELSE "false"

\* lines 171-174: whether a mid-round snapshot's base HP is recorded as a change
hpChanged_NoBaselineGuard(youHp, oppHp, lastYou, lastOpp) ==
  youHp # lastYou \/ oppHp # lastOpp
hpChanged(youHp, oppHp, lastYou, lastOpp) ==
  lastYou # NoNum /\ (youHp # lastYou \/ oppHp # lastOpp)

\* GameRecorder.ingest(state) on a recorder with fields r: the fields after the
\* call, ret ("true", "false" or "threw"), the record handed to onComplete
\* (<<>> when none is), the HP sample taken (<<>> when none is), whether
\* diffSnapshots was called and whether it threw inside the try block
GameRecorder_ingest(r, state) ==
  LET \* lines 88-101: local player resolution
      lp == IF needsResolution(r, state) THEN resolveLocal(state) ELSE r.localPlayerId
      \* lines 104-123: player pair capture
      capture == r.players = <<>> /\ Len(state.keys) >= 2
      localId == pairLocalId(state, lp)
      oppId == pairOppId(state, lp)
      pl == IF capture THEN <<buildPlayer(localId, state), buildPlayer(oppId, state)>>
            ELSE r.players
      limited == IF capture
                   THEN Min(state.players[localId].numCardsInDeck,
                            state.players[oppId].numCardsInDeck)
                          <= LIMITED_DECK_SIZE_THRESHOLD
                   ELSE r.isLimitedFormat
      fmt == IF capture THEN state.gameMode ELSE r.format
      \* lines 126-134: log accumulation
      log == r.rawLog \o state.newMessages
      roundLogs == r.currentRoundLogs \o state.newMessages
      logEvents == parseLogEntries(r.gameId, Max(1, r.roundNumber), state.newMessages)
      events1 == r.cardEvents \o logEvents
      \* lines 138-182: round boundary / mid-round HP sampling
      boundary == roundBoundary(state, r.prevPhase, pl)
      midRound == state.phase = "action" /\ r.prevPhase = "action" /\ pl # <<>>
      flushed == IF boundary /\ Len(r.snapshots) > 0
                   THEN [r.snapshots EXCEPT ![Len(r.snapshots)] =
                           [@ EXCEPT !.logEntries = roundLogs,
                                     !.baseHpChanges = r.currentRoundBaseHpChanges]]
                   ELSE r.snapshots
      round == IF boundary THEN Max(r.roundNumber + 1, 1) ELSE r.roundNumber
      threw == boundary /\ captureThrows(state, pl)
      snap == IF boundary THEN captureSnapshot(state, round, pl) ELSE <<>>
      snaps == flushed \o snap
      bothPresent == /\ pl # <<>>
                     /\ pl[1].id \in DOMAIN state.players
                     /\ pl[2].id \in DOMAIN state.players
      youHp == baseHpOf(state.players[pl[1].id])
      oppHp == baseHpOf(state.players[pl[2].id])
      sampled == /\ midRound /\ bothPresent
                 /\ hpChanged(youHp, oppHp, r.lastKnownYouHp, r.lastKnownOppHp)
      roundLogs2 == IF boundary THEN <<>> ELSE roundLogs
      hpChanges == IF boundary THEN <<>>
                   ELSE IF sampled
                     THEN Append(r.currentRoundBaseHpChanges, [youHp |-> youHp, oppHp |-> oppHp])
                     ELSE r.currentRoundBaseHpChanges
      seeded == (boundary /\ snap # <<>>) \/ (midRound /\ bothPresent)
      \* lines 185-199: differencing
      ctx == [gameId |-> r.gameId, roundNumber |-> round, localPlayerId |-> lp]
      diffEvents == IF r.prevState = <<>> THEN <<>>
                    ELSE diffCaught(r.prevState[1], state, ctx)
      events2 == events1 \o diffEvents
      \* lines 202-205: completion
      done == gameEnded(state, pl)
      finalSnaps == IF done THEN finalSnapshots(snaps, roundLogs2, hpChanges) ELSE snaps
      resolved == [r EXCEPT !.localPlayerId = lp, !.players = pl,
                            !.isLimitedFormat = limited, !.format = fmt,
                            !.rawLog = log, !.roundNumber = round]
  IN
  IF alreadyDone(r)
    THEN [rec |-> r, ret |-> "true", record |-> <<>>, sample |-> <<>>, diffed |-> FALSE,
          diffThrew |-> FALSE]
  ELSE IF state.id # r.gameId
    THEN [rec |-> r, ret |-> "false", record |-> <<>>, sample |-> <<>>, diffed |-> FALSE,
          diffThrew |-> FALSE]
  ELSE IF threw THEN
    \* the TypeError leaves ingest after line 153
    [rec |-> [resolved EXCEPT !.cardEvents = events1, !.snapshots = flushed,
                              !.currentRoundLogs = <<>>,
                              !.currentRoundBaseHpChanges = <<>>],
     ret |-> "threw", record |-> <<>>, sample |-> <<>>, diffed |-> FALSE,
     diffThrew |-> FALSE]
  ELSE
    [rec |-> [resolved EXCEPT
                !.cardEvents = events2, !.snapshots = finalSnaps,
                !.currentRoundLogs = roundLogs2,
                !.currentRoundBaseHpChanges = hpChanges,
                !.lastKnownYouHp = IF seeded THEN youHp ELSE @,
                !.lastKnownOppHp = IF seeded THEN oppHp ELSE @,
                !.prevPhase = state.phase, !.prevState = <<state>>,
                !.completed = (@ \/ done)],
     ret |-> ingestReturn(done),
     record |-> IF done
                  THEN <<GameRecord(r.gameId, state, fmt, limited, pl, round, events2,
                                    log, finalSnaps)>>
                  ELSE <<>>,
     sample |-> IF sampled THEN <<[youHp |-> youHp, oppHp |-> oppHp]>> ELSE <<>>,
     diffed |-> r.prevState # <<>>,
     diffThrew |-> r.prevState # <<>> /\ diffThrows(r.prevState[1], state, ctx)]

\* the recorder of game gameId, as the record of its fields
This ==
  [gameId |-> gameId, prevState |-> prevState, cardEvents |-> cardEvents,
   rawLog |-> rawLog, players |-> players, isLimitedFormat |-> isLimitedFormat,
   format |-> format, roundNumber |-> roundNumber, completed |-> completed,
   snapshots |-> snapshots, currentRoundLogs |-> currentRoundLogs,
   currentRoundBaseHpChanges |-> currentRoundBaseHpChanges,
   lastKnownYouHp |-> lastKnownYouHp, lastKnownOppHp |-> lastKnownOppHp,
   prevPhase |-> prevPhase, localPlayerId |-> localPlayerId]

\* lastSeen is the last snapshot that got past the early returns of lines 82-83,
\* seenBefore tells whether there was one before this call, diffedLast whether
\* this call diffed the snapshot against it; perRound[k] holds the log entries
\* that arrived and the HP samples that were taken while the round counter was k
perRoundAfter(state, out) ==
  LET processed == ~completed /\ state.id = gameId
      arrived == IF processed /\ roundNumber >= 1
                   THEN [lastCall.perRound EXCEPT ![roundNumber].logs = @ \o state.newMessages]
                   ELSE lastCall.perRound
      opened == IF out.rec.roundNumber > Len(arrived)
                  THEN Append(arrived, [logs |-> <<>>, hps |-> <<>>])
                  ELSE arrived
  IN IF out.sample # <<>>
       THEN [opened EXCEPT ![out.rec.roundNumber].hps = @ \o out.sample]
       ELSE opened

CallInfo(state, out) ==
  [state |-> <<state>>, ret |-> out.ret, completedBefore |-> completed,
   playersBefore |-> players, localBefore |-> localPlayerId,
   formatBefore |-> format, limitedBefore |-> isLimitedFormat,
   roundBefore |-> roundNumber, eventsBefore |-> Len(cardEvents),
   snapshotsBefore |-> Len(snapshots), prevPhaseBefore |-> prevPhase,
   deliveredBefore |-> Len(delivered), diffThrew |-> out.diffThrew,
   diffed |-> out.diffed, seenBefore |-> lastCall.lastSeen # <<>>,
   diffedLast |-> out.diffed /\ prevState = lastCall.lastSeen,
   perRound |-> perRoundAfter(state, out),
   lastSeen |-> IF ~completed /\ state.id = gameId THEN <<state>> ELSE lastCall.lastSeen]

\* one ingest call on the recorder of game gameId
ingest(state) ==
  /\ calls < MaxIngest
  /\ \E out \in {GameRecorder_ingest(This, state)} :
     /\ calls' = calls + 1
     /\ lastCall' = CallInfo(state, out)
     /\ prevState' = out.rec.prevState
     /\ cardEvents' = out.rec.cardEvents
     /\ rawLog' = out.rec.rawLog
     /\ players' = out.rec.players
     /\ isLimitedFormat' = out.rec.isLimitedFormat
     /\ format' = out.rec.format
     /\ roundNumber' = out.rec.roundNumber
     /\ completed' = out.rec.completed
     /\ snapshots' = out.rec.snapshots
     /\ currentRoundLogs' = out.rec.currentRoundLogs
     /\ currentRoundBaseHpChanges' = out.rec.currentRoundBaseHpChanges
     /\ lastKnownYouHp' = out.rec.lastKnownYouHp
     /\ lastKnownOppHp' = out.rec.lastKnownOppHp
     /\ prevPhase' = out.rec.prevPhase
     /\ localPlayerId' = out.rec.localPlayerId
     /\ delivered' = delivered \o out.record
     /\ UNCHANGED <<profile, diffVars, frameVars, logVars, registryVars>>

\* ------------------------------------------------------------------------
\* The snapshots a run may deliver
\* ------------------------------------------------------------------------
Setup == "setup"
Action == "action"
Regroup == "regroup"

\* player p1 is Alice, player p2 is Bob
Alice(deck, piles, hand, ground, discard, hp, damage) ==
  PS("Alice", "id1", deck, piles, hand, ground, {}, {}, discard, hp, damage)
Bob(deck, piles, hp, damage) ==
  PS("Bob", "id2", deck, piles, {}, {}, {}, {}, {}, hp, damage)

AliceHolding == Alice(36, "full", {"u1"}, {}, {}, NoNum, NoNum)
AlicePlayed == Alice(35, "full", {}, {"u1"}, {}, NoNum, NoNum)
AliceResourced == PS("Alice", "id1", 36, "full", {}, {}, {}, {"u1"}, {}, NoNum, NoNum)
AliceNoPiles == Alice(36, "none", {}, {}, {}, NoNum, NoNum)
AliceNoArena == Alice(35, "noArena", {"u1"}, {}, {}, NoNum, NoNum)
BobPlain == Bob(36, "full", NoNum, NoNum)
BobNoPiles == Bob(36, "none", NoNum, NoNum)

usedEntry ==
  [alert |-> TRUE,
   parts |-> <<Obj("player", "p1", "Alice"), Txt(<<"U", "s", "e", "d">>),
               Obj("card", "han-solo", "Han Solo")>>]
chatEntry ==
  [alert |-> FALSE, parts |-> <<Txt(<<"u", "s", "e", "d">>)>>]

Profiles == {"lifecycle", "resolution", "rounds", "piles", "hp", "solo", "resources"}

Snapshots(pr) ==
  CASE pr = "lifecycle" ->
         {GameState("g1", keys, AliceHolding, BobPlain, Null, phase, winners, msgs, "premier") :
            keys \in {<<"p1">>, <<"p1", "p2">>}, phase \in {Setup, Action},
            winners \in {<<>>, <<"Alice">>, <<"Alice", "Bob">>},
            msgs \in {<<>>, <<usedEntry>>}}
         \cup {GameState("g2", <<"p1", "p2">>, AliceHolding, BobPlain, Null, Action,
                         <<"Bob">>, <<usedEntry>>, "premier")}
    [] pr = "resolution" ->
         {GameState("g1", keys, AliceHolding, Bob(v.deck, "full", NoNum, NoNum), hint,
                    Setup, <<>>, <<>>, v.mode) :
            keys \in {<<"p1">>, <<"p1", "p2">>, <<"p2", "p1">>},
            hint \in {Null, "p2", "Bob", "id1", "nobody"},
            v \in {[deck |-> 36, mode |-> "premier"], [deck |-> 30, mode |-> "open"]}}
    [] pr = "rounds" ->
         {GameState("g1", <<"p1", "p2">>, a, BobPlain, "p1", phase, winners, msgs, "premier") :
            a \in {AliceHolding, AlicePlayed}, phase \in {Setup, Action, Regroup},
            winners \in {<<>>, <<"Alice">>}, msgs \in {<<>>, <<usedEntry>>}}
    [] pr = "piles" ->
         {GameState("g1", <<"p1", "p2">>, a, b, Null, phase, winners,
                    IF a = AliceNoArena THEN <<usedEntry>> ELSE <<>>, "premier") :
            a \in {AliceHolding, AliceNoPiles, AliceNoArena}, b \in {BobPlain, BobNoPiles},
            phase \in {Setup, Action}, winners \in {<<>>, <<"Bob">>}}
    [] pr = "hp" ->
         {GameState("g1", <<"p1", "p2">>,
                    Alice(36, "full", {}, {}, {}, NoNum, da),
                    Bob(36, "full", b.hp, b.damage), "p1", phase, <<>>, msgs, "premier") :
            da \in {NoNum, 2, 40},
            b \in {[hp |-> NoNum, damage |-> NoNum], [hp |-> 25, damage |-> 5]},
            phase \in {Action, Regroup}, msgs \in {<<>>, <<chatEntry>>}}
    [] pr = "solo" ->
         {GameState("g1", <<"p1">>, a, BobPlain, "p1", phase, winners, msgs, "premier") :
            a \in {AliceHolding, AlicePlayed}, phase \in {Setup, Action},
            winners \in {<<>>, <<"Alice">>}, msgs \in {<<>>, <<usedEntry>>}}
    [] pr = "resources" ->
         {GameState("g1", keys, a, BobPlain, hint, phase, <<>>, <<>>, "premier") :
            keys \in {<<"p1", "p2">>, <<"p2", "p1">>}, hint \in {Null, "p1", "p2"},
            a \in {AliceHolding, AliceResourced}, phase \in {Setup, Action}}

NoCall ==
  [state |-> <<>>, ret |-> "none", completedBefore |-> FALSE, playersBefore |-> <<>>,
   localBefore |-> Null, formatBefore |-> "premier", limitedBefore |-> FALSE,
   roundBefore |-> 0, eventsBefore |-> 0, snapshotsBefore |-> 0,
   prevPhaseBefore |-> Null, deliveredBefore |-> 0, diffThrew |-> FALSE,
   diffed |-> FALSE, seenBefore |-> FALSE, diffedLast |-> FALSE, lastSeen |-> <<>>,
   perRound |-> <<>>]

\* the recorder as constructed
Constructed ==
  /\ prevState = <<>>
  /\ cardEvents = <<>>
  /\ rawLog = <<>>
  /\ players = <<>>
  /\ isLimitedFormat = FALSE
  /\ format = "premier"
  /\ roundNumber = 0
  /\ completed = FALSE
  /\ snapshots = <<>>
  /\ currentRoundLogs = <<>>
  /\ currentRoundBaseHpChanges = <<>>
  /\ lastKnownYouHp = NoNum
  /\ lastKnownOppHp = NoNum
  /\ prevPhase = Null
  /\ localPlayerId = Null
  /\ delivered = <<>>
  /\ calls = 0
  /\ lastCall = NoCall

NotRun == [ran |-> FALSE, threw |-> FALSE, events |-> <<>>]
NotParsed == [ran |-> FALSE, frame |-> <<>>]

\* no diffSnapshots call and no parseFrame call is under study
NoDiff == diffIn = <<>> /\ diffOut = NotRun
NoFrame == frameIn = <<>> /\ frameOut = NotParsed
NotExtracted == [ran |-> FALSE, events |-> <<>>]
NoLog == logIn = <<>> /\ logOut = NotExtracted

\* content.ts as loaded: const recorders = new Map(), trackingEnabled = true,
\* forceFormat = 'premier'
GameIds == {"g1", "g2"}
EmptyRegistry == [k \in GameIds |-> <<>>]
NoMessage ==
  [gameId |-> Null, trackingBefore |-> TRUE, existedBefore |-> FALSE,
   created |-> FALSE, ingested |-> FALSE, ret |-> "none", sentBefore |-> 0,
   failedBefore |-> FALSE, gameState |-> FALSE, won |-> FALSE]
Loaded ==
  /\ recorders = EmptyRegistry
  /\ trackingEnabled = TRUE
  /\ forceFormat = "premier"
  /\ sent = <<>>
  /\ handoffs = <<>>
  /\ alone = [g \in GameIds |-> [reg |-> EmptyRegistry, sent |-> <<>>]]
  /\ messages = 0
  /\ lastMsg = NoMessage

Init ==
  /\ Constructed
  /\ profile \in Profiles
  /\ NoDiff
  /\ NoFrame
  /\ NoLog
  /\ Loaded

Next == \E state \in Snapshots(profile) : ingest(state)

Spec == Init /\ [][Next]_vars

\* ------------------------------------------------------------------------
\* diffSnapshots as a function: one call on a bounded pair of snapshots
\* ------------------------------------------------------------------------
Zones == {"hand", "groundArena", "spaceArena", "resources", "discard"}

\* the piles a card instance is listed in
Placements == {z \in SUBSET Zones : Cardinality(z) <= MaxZones}
FewPlacements == {{}, {"hand"}, {"resources"}, {"discard"}}

\* Alice with u1 and u3 placed as given
AlicePlaced(deck, z1, z3) ==
  LET pile(zone) == (IF zone \in z1 THEN {"u1"} ELSE {}) \cup (IF zone \in z3 THEN {"u3"} ELSE {})
  IN PS("Alice", "id1", deck, "full", pile("hand"), pile("groundArena"),
        pile("spaceArena"), pile("resources"), pile("discard"), NoNum, NoNum)

DiffContexts ==
  {[gameId |-> gameId, roundNumber |-> 0, localPlayerId |-> Null],
   [gameId |-> gameId, roundNumber |-> 2, localPlayerId |-> "p1"],
   [gameId |-> gameId, roundNumber |-> 1, localPlayerId |-> "p2"]}

DiffInputs ==
  {[prev |-> GameState("g1", <<"p1", "p2">>, AlicePlaced(36, a0, b0), Bob(36, "full", NoNum, NoNum),
                       Null, Action, <<>>, <<>>, "premier"),
    next |-> GameState("g1", <<"p1", "p2">>, AlicePlaced(36 - d, a1, b1),
                       Bob(36 - d, "full", NoNum, NoNum),
                       Null, Action, <<>>, <<>>, "premier"),
    ctx |-> ctx] :
     a0 \in Placements, a1 \in Placements,
     b0 \in {{}, {"hand"}}, b1 \in FewPlacements,
     d \in (-1)..MaxDeckDrop, ctx \in DiffContexts}

InitDiff ==
  /\ Constructed
  /\ profile = "lifecycle"
  /\ diffIn \in {<<i>> : i \in DiffInputs}
  /\ diffOut = NotRun
  /\ NoFrame
  /\ NoLog
  /\ Loaded

runDiff ==
  /\ diffIn # <<>>
  /\ ~diffOut.ran
  /\ diffOut' =
       IF diffThrows(diffIn[1].prev, diffIn[1].next, diffIn[1].ctx)
         THEN [ran |-> TRUE, threw |-> TRUE, events |-> <<>>]
         ELSE [ran |-> TRUE, threw |-> FALSE,
               events |-> diffSnapshots(diffIn[1].prev, diffIn[1].next, diffIn[1].ctx)]
  /\ UNCHANGED <<recorderVars, diffIn, frameVars, logVars, registryVars>>

NextDiff == runDiff

SpecDiff == InitDiff /\ [][NextDiff]_vars

\* ------------------------------------------------------------------------
\* socketParser: parseFrame on the characters of a raw frame
\* ------------------------------------------------------------------------
\* a string is the sequence of its characters
Quote == "\""
Backslash == "\\"
DigitChars == <<"0", "1", "2", "3", "4", "5", "6", "7", "8", "9">>
isDigit(c) == \E i \in DOMAIN DigitChars : DigitChars[i] = c

\* cs[i], or "" past the end of the string
at(cs, i) == IF i \in DOMAIN cs THEN cs[i] ELSE ""
\* cs.slice(from - 1)
slice(cs, from) == SubSeq(cs, from, Len(cs))
\* cs.indexOf(c) + 1: 0 when c does not occur
indexOf(cs, c) ==
  IF \E i \in DOMAIN cs : cs[i] = c
    THEN CHOOSE i \in DOMAIN cs : cs[i] = c /\ \A j \in 1..(i - 1) : cs[j] # c
    ELSE 0
startsWithAt(cs, i, lit) ==
  /\ i + Len(lit) - 1 <= Len(cs)
  /\ \A j \in DOMAIN lit : cs[i + j - 1] = lit[j]

RECURSIVE numToChars(_)
numToChars(n) ==
  IF n < 10 THEN <<DigitChars[n + 1]>>
  ELSE numToChars(n \div 10) \o <<DigitChars[(n % 10) + 1]>>

\* JSON values: the type t, the characters s of a string or the decimal
\* digits of an integer, the items of an array or the keys and the values of
\* an object, in insertion order
JValue(t, s, keys, items) == [t |-> t, s |-> s, keys |-> keys, items |-> items]
JNull == JValue("null", <<>>, <<>>, <<>>)
JBool(b) == JValue(IF b THEN "true" ELSE "false", <<>>, <<>>, <<>>)
JNumber(digits) == JValue("num", digits, <<>>, <<>>)
JNum(n) == JNumber(IF n < 0 THEN <<"-">> \o numToChars(0 - n) ELSE numToChars(n))
JStr(cs) == JValue("str", cs, <<>>, <<>>)
JArr(items) == JValue("arr", <<>>, <<>>, items)
JObj(keys, items) == JValue("obj", <<>>, keys, items)

Literal(t) ==
  CASE t = "null" -> <<"n", "u", "l", "l">>
    [] t = "true" -> <<"t", "r", "u", "e">>
    [] t = "false" -> <<"f", "a", "l", "s", "e">>

\* JSON.stringify, as the sender of a frame applies it
RECURSIVE escape(_)
escape(cs) ==
  IF cs = <<>> THEN <<>>
  ELSE (IF Head(cs) \in {Quote, Backslash} THEN <<Backslash, Head(cs)>> ELSE <<Head(cs)>>)
       \o escape(Tail(cs))

RECURSIVE stringify(_)
RECURSIVE stringifyItems(_)
RECURSIVE stringifyMembers(_, _)
stringify(val) ==
  CASE val.t = "str" -> <<Quote>> \o escape(val.s) \o <<Quote>>
    [] val.t = "num" -> val.s
    [] val.t = "arr" -> <<"[">> \o stringifyItems(val.items) \o <<"]">>
    [] val.t = "obj" -> <<"{">> \o stringifyMembers(val.keys, val.items) \o <<"}">>
    [] OTHER -> Literal(val.t)
stringifyItems(items) ==
  IF items = <<>> THEN <<>>
  ELSE stringify(Head(items))
       \o (IF Len(items) > 1 THEN <<",">> \o stringifyItems(Tail(items)) ELSE <<>>)
stringifyMembers(keys, items) ==
  IF keys = <<>> THEN <<>>
  ELSE <<Quote>> \o escape(Head(keys)) \o <<Quote, ":">> \o stringify(Head(items))
       \o (IF Len(keys) > 1 THEN <<",">> \o stringifyMembers(Tail(keys), Tail(items))
           ELSE <<>>)

\* JSON.parse: a recursive-descent reading of the text; a parse step yields
\* the value read and the position after it, or fails
Fail == [ok |-> FALSE, val |-> JNull, next |-> 0]
Ok(val, next) == [ok |-> TRUE, val |-> val, next |-> next]

\* the characters of a string literal after its opening quote
RECURSIVE scanString(_, _, _)
scanString(cs, i, acc) ==
  IF i > Len(cs) THEN Fail
  ELSE IF cs[i] = Quote THEN Ok(JStr(acc), i + 1)
  ELSE IF cs[i] = Backslash
    THEN IF at(cs, i + 1) \in {Quote, Backslash, "/"}
           THEN scanString(cs, i + 2, Append(acc, cs[i + 1]))
           ELSE Fail
  ELSE scanString(cs, i + 1, Append(acc, cs[i]))

\* the digits of an integer; a leading zero may not be followed by a digit
RECURSIVE scanNumber(_, _, _)
scanNumber(cs, i, acc) ==
  IF isDigit(at(cs, i))
    THEN IF acc \in {<<"0">>, <<"-", "0">>} THEN Fail
         ELSE scanNumber(cs, i + 1, Append(acc, cs[i]))
  ELSE Ok(JNumber(acc), i)

parseNumber(cs, i) ==
  IF at(cs, i) = "-"
    THEN IF isDigit(at(cs, i + 1)) THEN scanNumber(cs, i + 1, <<"-">>) ELSE Fail
    ELSE scanNumber(cs, i, <<>>)

RECURSIVE parseValue(_, _)
RECURSIVE parseItems(_, _, _)
RECURSIVE parseMembers(_, _, _, _)
parseValue(cs, i) ==
  LET c == at(cs, i)
  IN IF c = Quote THEN scanString(cs, i + 1, <<>>)
     ELSE IF c = "[" THEN IF at(cs, i + 1) = "]" THEN Ok(JArr(<<>>), i + 2)
                          ELSE parseItems(cs, i + 1, <<>>)
     ELSE IF c = "{" THEN IF at(cs, i + 1) = "}" THEN Ok(JObj(<<>>, <<>>), i + 2)
                          ELSE parseMembers(cs, i + 1, <<>>, <<>>)
     ELSE IF isDigit(c) \/ c = "-" THEN parseNumber(cs, i)
     ELSE IF startsWithAt(cs, i, Literal("null")) THEN Ok(JNull, i + 4)
     ELSE IF startsWithAt(cs, i, Literal("true")) THEN Ok(JBool(TRUE), i + 4)
     ELSE IF startsWithAt(cs, i, Literal("false")) THEN Ok(JBool(FALSE), i + 5)
     ELSE Fail
parseItems(cs, i, acc) ==
  LET e == parseValue(cs, i)
  IN IF ~e.ok THEN Fail
     ELSE IF at(cs, e.next) = "," THEN parseItems(cs, e.next + 1, Append(acc, e.val))
     ELSE IF at(cs, e.next) = "]" THEN Ok(JArr(Append(acc, e.val)), e.next + 1)
     ELSE Fail
parseMembers(cs, i, keys, items) ==
  IF at(cs, i) # Quote THEN Fail
  ELSE LET key == scanString(cs, i + 1, <<>>)
       IN IF ~key.ok \/ at(cs, key.next) # ":" THEN Fail
          ELSE LET e == parseValue(cs, key.next + 1)
               IN IF ~e.ok THEN Fail
                  ELSE IF at(cs, e.next) = ","
                    THEN parseMembers(cs, e.next + 1, Append(keys, key.val.s),
                                      Append(items, e.val))
                  ELSE IF at(cs, e.next) = "}"
                    THEN Ok(JObj(Append(keys, key.val.s), Append(items, e.val)), e.next + 1)
                  ELSE Fail

\* JSON.parse(body): <<the value>>, or <<>> when it throws
JSON_parse(cs) ==
  LET r == parseValue(cs, 1)
  IN IF r.ok /\ r.next = Len(cs) + 1 THEN <<r.val>> ELSE <<>>

EIO_MESSAGE == "4"
SIO_EVENT == "2"
SIO_ACK == "3"

\* SocketIOFrame; an absent event is Undefined, absent data is <<>>
Undefined == <<"undefined">>
Frame(type, event, data) == [type |-> type, event |-> event, data |-> data]

\* String(event)
RECURSIVE StringOf(_)
RECURSIVE joinItems(_)
StringOf(val) ==
  CASE val.t = "str" -> val.s
    [] val.t = "num" -> val.s
    [] val.t = "arr" -> joinItems(val.items)
    [] val.t = "obj" -> <<"[", "o", "b", "j", "e", "c", "t", " ", "O", "b", "j", "e", "c", "t", "]">>
    [] OTHER -> Literal(val.t)
joinItems(items) ==
  IF items = <<>> THEN <<>>
  ELSE (IF Head(items).t = "null" THEN <<>> ELSE StringOf(Head(items)))
       \o (IF Len(items) > 1 THEN <<",">> \o joinItems(Tail(items)) ELSE <<>>)

\* lines 36-41: strip the namespace prefix "/namespace,"; <<>> when the frame
\* is dropped because the prefix has no comma
stripNamespace_KeepComma(body) ==
  IF at(body, 1) = "/"
    THEN LET commaIdx == indexOf(body, ",")
         IN IF commaIdx = 0 THEN <<>> ELSE <<slice(body, commaIdx)>>
    ELSE <<body>>
stripNamespace(body) ==
  IF at(body, 1) = "/"
    THEN LET commaIdx == indexOf(body, ",")
         IN IF commaIdx = 0 THEN <<>> ELSE <<slice(body, commaIdx + 1)>>
    ELSE <<body>>

\* line 44: body.replace(/^\d+(?=\[)/, '')
leadingDigits(cs) ==
  CHOOSE k \in 0..Len(cs) : (\A j \in 1..k : isDigit(cs[j])) /\ ~isDigit(at(cs, k + 1))
stripAckId(body) ==
  LET k == leadingDigits(body)
  IN IF k > 0 /\ at(body, k + 1) = "[" THEN slice(body, k + 1) ELSE body

\* line 32: sioType is SIO_EVENT or SIO_ACK
recognized_Any(sioType) == TRUE
recognized(sioType) == sioType \in {SIO_EVENT, SIO_ACK}

\* parseFrame(raw): <<>> for null, or <<the frame>>
parseFrame(raw) ==
  IF at(raw, 1) # EIO_MESSAGE THEN <<>>
  ELSE IF ~recognized(at(raw, 2)) THEN <<Frame("other", Undefined, <<>>)>>
  ELSE LET unprefixed == stripNamespace(slice(raw, 3))
       IN IF unprefixed = <<>> THEN <<>>
          ELSE LET body == stripAckId(unprefixed[1])
                   parsed == JSON_parse(body)
               IN IF at(body, 1) # "[" THEN <<>>
                  ELSE IF parsed = <<>> THEN <<>>
                  ELSE IF parsed[1].t # "arr" THEN <<>>
                  ELSE IF at(raw, 2) = SIO_EVENT
                    THEN <<Frame("event",
                                 IF parsed[1].items = <<>> THEN <<"u", "n", "d", "e", "f", "i", "n", "e", "d">>
                                 ELSE StringOf(Head(parsed[1].items)),
                                 IF parsed[1].items = <<>> THEN <<>> ELSE Tail(parsed[1].items))>>
                    ELSE <<Frame("ack", Undefined, parsed[1].items)>>

\* ------------------------------------------------------------------------
\* parseFrame as a function: one call on a bounded raw frame
\* ------------------------------------------------------------------------
MaxNesting == 2

\* a Socket.IO packet as the server sends it: the Engine.IO message digit, the
\* Socket.IO type digit, the namespace prefix, the ack id and the JSON text
buildFrame(sioType, ns, ack, val) == <<EIO_MESSAGE, sioType>> \o ns \o ack \o stringify(val)

GAMESTATE == <<"g", "a", "m", "e", "s", "t", "a", "t", "e">>

EventNames ==
  {GAMESTATE, <<"a", Quote>>, <<Backslash, ",">>,
   <<>>, <<"4", "2">>, <<"/", "[">>}

BasePayloads ==
  {JNull, JBool(TRUE), JNum(0), JNum(42), JStr(<<"a", ",", "]">>),
   JStr(<<Quote, Backslash>>),
   JObj(<<<<"i", "d">>, <<"w">>>>, <<JStr(<<"g", "1">>), JArr(<<>>)>>)}

\* a payload wrapped in d arrays
RECURSIVE Nested(_, _)
Nested(val, d) == IF d = 0 THEN val ELSE JArr(<<Nested(val, d - 1), JNum(d)>>)

Payloads == {Nested(b, d) : b \in BasePayloads, d \in 0..MaxNesting}
Namespaces == {<<>>, <<"/", ",">>, <<"/", "g", "1", ",">>}
AckIds == {<<>>, <<"7">>, <<"1", "2">>}

FrameInput(kind, event, payload, raw) ==
  [kind |-> kind, event |-> event, payload |-> payload, raw |-> raw]

FrameInputs ==
  {FrameInput("event", e, pl, buildFrame(SIO_EVENT, ns, ack, JArr(<<JStr(e), pl>>))) :
     e \in EventNames, pl \in Payloads, ns \in Namespaces, ack \in AckIds}
  \cup {FrameInput("ack", <<>>, pl, buildFrame(SIO_ACK, ns, ack, JArr(<<pl>>))) :
          pl \in BasePayloads, ns \in Namespaces, ack \in AckIds \ {<<>>}}
  \cup {FrameInput("control", <<>>, JNull, <<EIO_MESSAGE>>)}
  \cup {FrameInput("control", <<>>, JNull, <<EIO_MESSAGE, sioType>> \o rest) :
          sioType \in {"0", "1", "4", "5", "x"},
          rest \in {<<>>, <<Quote, "x", Quote>>, <<"/", "g", "1">>, <<"[">>, <<"2", "[", "]">>,
                    <<"/", "g", "1", ",", "7">> \o stringify(JArr(<<JStr(GAMESTATE), JNull>>))}}
  \cup {FrameInput("foreign", <<>>, JNull, raw) :
          raw \in {<<>>, <<"2">>, <<"3">>, <<"0", "{", "}">>}}
  \cup {FrameInput("malformed", <<>>, JNull, raw) :
          raw \in {<<"4", "2", "/", "g", "1">>, <<"4", "2", "{", "}">>,
                   <<"4", "2", "[", Quote, "g">>, <<"4", "2", "1", "2", "x">>,
                   <<"4", "2", "[", "0", "1", "]">>, <<"4", "2", "[", "]", "]">>}}

InitFrame ==
  /\ Constructed
  /\ profile = "lifecycle"
  /\ NoDiff
  /\ frameIn \in {<<i>> : i \in FrameInputs}
  /\ frameOut = NotParsed
  /\ NoLog
  /\ Loaded

runParse ==
  /\ frameIn # <<>>
  /\ ~frameOut.ran
  /\ frameOut' = [ran |-> TRUE, frame |-> parseFrame(frameIn[1].raw)]
  /\ UNCHANGED <<recorderVars, diffVars, frameIn, logVars, registryVars>>

NextFrame == runParse

SpecFrame == InitFrame /\ [][NextFrame]_vars

\* ------------------------------------------------------------------------
\* logParser.ts: one parseLogEntries call on a batch of chat entries
\* ------------------------------------------------------------------------
MaxParts == 3
MaxEntries == 2

\* the message parts the entries are made of: two player references, two card
\* references (one whose name holds a keyword), a keyword and another word
LogParts ==
  {Obj("player", "p1", "Alice"), Obj("player", "p2", "Bob"),
   Obj("card", "han-solo", "Han Solo"), Obj("card", "speeder", "Used Speeder"),
   Txt(<<"U", "s", "e", "d">>), Txt(<<"p", "l", "a", "y", "e", "d">>)}

\* structured alerts and player-chat arrays of up to MaxParts parts
LogEntries ==
  {[alert |-> a, parts |-> ps] :
     a \in BOOLEAN, ps \in UNION {[1..n -> LogParts] : n \in 0..MaxParts}}

\* the entries that surround the one under test in a batch
plainEntry == [alert |-> TRUE, parts |-> <<Txt(<<"p", "l", "a", "y", "e", "d">>)>>]
SurroundingEntries == {usedEntry, chatEntry, plainEntry}

LogBatches ==
  {b.before \o <<b.entry>> \o b.after :
     b \in {x \in [before : UNION {[1..n -> SurroundingEntries] : n \in 0..(MaxEntries - 1)},
                   entry : LogEntries,
                   after : UNION {[1..n -> SurroundingEntries] : n \in 0..(MaxEntries - 1)}] :
              Len(x.before) + Len(x.after) < MaxEntries}}

InitLog ==
  /\ Constructed
  /\ profile = "lifecycle"
  /\ NoDiff
  /\ NoFrame
  /\ logIn \in {<<b>> : b \in LogBatches}
  /\ logOut = NotExtracted
  /\ Loaded

runExtract ==
  /\ logIn # <<>>
  /\ ~logOut.ran
  /\ logOut' = [ran |-> TRUE, events |-> parseLogEntries("g1", 1, logIn[1])]
  /\ UNCHANGED <<recorderVars, diffVars, frameVars, logIn, registryVars>>

NextLog == runExtract

SpecLog == InitLog /\ [][NextLog]_vars

\* ------------------------------------------------------------------------
\* content.ts: the recorder registry and the window message listener
\* ------------------------------------------------------------------------
MaxMessages == 4

\* the first data element of a frame the listener receives: whether it is an
\* object, whether it has a players field and an array-valued winners field,
\* and the IGameState its fields make up (id Null when it has no id)
Payload(isObject, hasPlayers, winnersIsArray, state) ==
  [isObject |-> isObject, hasPlayers |-> hasPlayers, winnersIsArray |-> winnersIsArray,
   state |-> state]

\* extractGameState(frame): <<>> for null, or <<the IGameState>>
extractGameState_AnyEvent(frame) ==
  IF frame.type # "event" THEN <<>>
  ELSE IF frame.data = <<>> \/ ~frame.data[1].isObject THEN <<>>
  ELSE IF \/ frame.data[1].state.id = Null
          \/ ~frame.data[1].hasPlayers
          \/ ~frame.data[1].winnersIsArray THEN <<>>
  ELSE <<frame.data[1].state>>
extractGameState(frame) ==
  IF frame.type # "event" \/ frame.event # GAMESTATE THEN <<>>
  ELSE IF frame.data = <<>> \/ ~frame.data[1].isObject THEN <<>>
  ELSE IF \/ frame.data[1].state.id = Null
          \/ ~frame.data[1].hasPlayers
          \/ ~frame.data[1].winnersIsArray THEN <<>>
  ELSE <<frame.data[1].state>>

\* handleGameComplete(record) up to the sendMessage call: the payload handed
\* to browser.runtime.sendMessage, <<>> when the record is discarded
handleGameComplete_KeepAll(tracking, force, record) ==
  IF force = "limited" THEN <<[record EXCEPT !.isLimitedFormat = TRUE]>>
  ELSE IF force = "eternal" THEN <<[record EXCEPT !.format = "open"]>>
  ELSE <<record>>
handleGameComplete(tracking, force, record) ==
  IF ~tracking THEN <<>>
  ELSE IF force = "limited" THEN <<[record EXCEPT !.isLimitedFormat = TRUE]>>
  ELSE IF force = "eternal" THEN <<[record EXCEPT !.format = "open"]>>
  ELSE <<record>>

\* the Map key a game's recorder is kept under
recorderKey_Shared(gid) == "g1"
recorderKey(gid) == gid

\* line 130: if (!trackingEnabled) return, before a recorder is created
mayCreate_Always(tracking) == TRUE
mayCreate(tracking) == tracking

\* line 125: state.winners && state.winners.length > 0, tested when the game
\* has no recorder
gameOver_Never(state) == FALSE
gameOver(state) == Len(state.winners) > 0

\* the 'message' listener (lines 85-146) on the parseFrame result parsed, with
\* registry reg: the registry after the call, the payload sent, and what the
\* call did
listener(reg, tracking, force, parsed) ==
  LET idle == [reg |-> reg, sent |-> <<>>, gameId |-> Null, existed |-> FALSE,
               created |-> FALSE, ingested |-> FALSE, ret |-> "none"]
      state == extractGameState(parsed[1])[1]
      key == recorderKey(state.id)
      has == reg[key] # <<>>
      out == GameRecorder_ingest(IF has THEN reg[key][1] ELSE NewRecorder(state.id), state)
  IN IF parsed = <<>> THEN idle
     ELSE IF parsed[1].type = "other" THEN idle
     ELSE IF extractGameState(parsed[1]) = <<>> THEN idle
     ELSE IF has /\ reg[key][1].completed
       THEN [idle EXCEPT !.reg = [reg EXCEPT ![key] = <<>>], !.gameId = state.id,
                         !.existed = TRUE]
     ELSE IF ~has /\ gameOver(state) THEN [idle EXCEPT !.gameId = state.id]
     ELSE IF ~has /\ ~mayCreate(tracking) THEN [idle EXCEPT !.gameId = state.id]
     ELSE [reg |-> [reg EXCEPT ![key] = IF out.ret = "true" THEN <<>> ELSE <<out.rec>>],
           sent |-> IF out.record = <<>> THEN <<>>
                    ELSE handleGameComplete(tracking, force, out.record[1]),
           gameId |-> state.id, existed |-> has, created |-> ~has,
           ingested |-> TRUE, ret |-> out.ret]

\* the frames the interceptor forwards, as parseFrame returns them
OpeningState(g) ==
  GameState(g, <<"p1", "p2">>, AliceHolding, BobPlain, "p1", Setup, <<>>, <<>>, "premier")
PlayingState(g) ==
  GameState(g, <<"p1", "p2">>, AlicePlayed, BobPlain, "p1", Action, <<>>, <<usedEntry>>,
            "premier")
WonState(g) ==
  GameState(g, <<"p1", "p2">>, AlicePlayed, BobPlain, "p1", Action, <<"Alice">>, <<>>,
            "premier")
BrokenState(g) ==
  GameState(g, <<"p1", "p2">>, AliceHolding, BobNoPiles, "p1", Action, <<>>, <<>>,
            "premier")

RegistryStates ==
  {OpeningState(g) : g \in GameIds} \cup {PlayingState(g) : g \in GameIds}
    \cup {WonState(g) : g \in GameIds} \cup {BrokenState("g1")}

WellFormed(st) == Payload(TRUE, TRUE, TRUE, st)
MalformedPayloads ==
  {Payload(TRUE, TRUE, TRUE, OpeningState(Null)),
   Payload(TRUE, FALSE, TRUE, OpeningState("g1")),
   Payload(TRUE, TRUE, FALSE, OpeningState("g1")),
   Payload(FALSE, FALSE, FALSE, OpeningState(Null))}

ParsedFrames ==
  {<<Frame("event", GAMESTATE, <<WellFormed(st)>>)>> : st \in RegistryStates}
    \cup {<<Frame("event", GAMESTATE, <<bad>>)>> : bad \in MalformedPayloads}
    \cup {<<Frame("event", GAMESTATE, <<>>)>>,
          <<Frame("event", <<"c", "h", "a", "t">>, <<WellFormed(OpeningState("g1"))>>)>>,
          <<Frame("ack", Undefined, <<WellFormed(OpeningState("g1"))>>)>>,
          <<Frame("other", Undefined, <<>>)>>,
          <<>>}

\* whether a parseFrame result is an event named 'gamestate' whose first data
\* element is an object with id, players and an array-valued winners
isGameStateFrame(parsed) ==
  /\ parsed # <<>>
  /\ parsed[1].type = "event"
  /\ parsed[1].event = GAMESTATE
  /\ parsed[1].data # <<>>
  /\ parsed[1].data[1].isObject
  /\ parsed[1].data[1].state.id # Null
  /\ parsed[1].data[1].hasPlayers
  /\ parsed[1].data[1].winnersIsArray

\* browser.storage.onChanged: the keys a change carries ("absent": not in changes)
StorageChanges ==
  {[trackingEnabled |-> t, formatMode |-> f] :
     t \in {"absent", "true", "false"}, f \in {"absent", "premier", "limited", "eternal"}}
    \ {[trackingEnabled |-> "absent", formatMode |-> "absent"]}

onStorageChanged(changes) ==
  /\ trackingEnabled' = IF changes.trackingEnabled = "absent" THEN trackingEnabled
                        ELSE changes.trackingEnabled # "false"
  /\ forceFormat' = IF changes.formatMode = "absent" THEN forceFormat
                    ELSE changes.formatMode
  /\ UNCHANGED <<recorders, sent, handoffs, alone, messages, lastMsg>>
  /\ UNCHANGED <<recorderVars, diffVars, frameVars, logVars>>

onWindowMessage(parsed) ==
  /\ messages < MaxMessages
  /\ \E out \in {listener(recorders, trackingEnabled, forceFormat, parsed)} :
       /\ messages' = messages + 1
       /\ recorders' = out.reg
       /\ sent' = sent \o out.sent
       /\ handoffs' = handoffs \o [k \in 1..Len(out.sent) |-> "pending"]
       /\ lastMsg' = [gameId |-> out.gameId, trackingBefore |-> trackingEnabled,
                      existedBefore |-> out.existed, created |-> out.created,
                      ingested |-> out.ingested, ret |-> out.ret,
                      sentBefore |-> Len(sent),
                      failedBefore |-> \E k \in DOMAIN handoffs : handoffs[k] = "failed",
                      gameState |-> isGameStateFrame(parsed),
                      won |-> /\ isGameStateFrame(parsed)
                              /\ Len(parsed[1].data[1].state.winners) > 0]
       /\ alone' = IF out.gameId \in GameIds
                     THEN LET solo == listener(alone[out.gameId].reg, trackingEnabled,
                                               forceFormat, parsed)
                          IN [alone EXCEPT ![out.gameId] =
                                [reg |-> solo.reg, sent |-> @.sent \o solo.sent]]
                     ELSE alone
  /\ UNCHANGED <<trackingEnabled, forceFormat>>
  /\ UNCHANGED <<recorderVars, diffVars, frameVars, logVars>>

\* lines 73-80: the payloads handed to sendMessage once the promise of the
\* i-th send has rejected and the catch block has run
afterRejection_Retry(payloads, i) == Append(payloads, payloads[i])
afterRejection(payloads, i) == payloads

\* the promise of the i-th sendMessage call settles: handleGameComplete resumes
\* after its await, in the try block (resolved) or in the catch block (rejected)
sendSettled(i, outcome) ==
  /\ i \in DOMAIN handoffs
  /\ handoffs[i] = "pending"
  /\ sent' = IF outcome = "failed" THEN afterRejection(sent, i) ELSE sent
  /\ handoffs' = [handoffs EXCEPT ![i] = outcome]
                   \o [k \in 1..(Len(sent') - Len(sent)) |-> "pending"]
  /\ UNCHANGED <<recorders, trackingEnabled, forceFormat, alone, messages, lastMsg>>
  /\ UNCHANGED <<recorderVars, diffVars, frameVars, logVars>>

InitRegistry ==
  /\ Constructed
  /\ profile = "lifecycle"
  /\ NoDiff
  /\ NoFrame
  /\ NoLog
  /\ Loaded

NextRegistry ==
  \/ \E parsed \in ParsedFrames : onWindowMessage(parsed)
  \/ \E changes \in StorageChanges : onStorageChanged(changes)

SpecRegistry == InitRegistry /\ [][NextRegistry]_vars

\* the listener under game-state traffic with the settings left as loaded,
\* interleaved with the settling of the sendMessage promises
HandOffFrames ==
  {<<Frame("event", GAMESTATE, <<WellFormed(st)>>)>> : st \in RegistryStates}
    \cup {<<Frame("other", Undefined, <<>>)>>}

NextHandOff ==
  \/ \E parsed \in HandOffFrames : onWindowMessage(parsed)
  \/ \E i \in 1..MaxMessages, outcome \in {"acked", "failed"} : sendSettled(i, outcome)

SpecHandOff == InitRegistry /\ [][NextHandOff]_vars

\* ------------------------------------------------------------------------
\* Properties
\* ------------------------------------------------------------------------
\* the argument of the last ingest call
LastState == lastCall.state[1]

\* the last ingest call got past both early returns (lines 82-83)
Processed == calls > 0 /\ ~lastCall.completedBefore /\ LastState.id = gameId

\* C1: the completion callback is invoked at most once; an ingest call
\* returns true exactly when the recorder is finalized after it; and the
\* callback is invoked by the first call that returns true and by no other.
C1_OneRecordAndReturn ==
  /\ Len(delivered) <= 1
  /\ (calls > 0 => ((lastCall.ret = "true") <=> completed))
  /\ (calls > 0 =>
        ((Len(delivered) = lastCall.deliveredBefore + 1)
           <=> (lastCall.ret = "true" /\ ~lastCall.completedBefore)))
  /\ (calls > 0 => Len(delivered) \in {lastCall.deliveredBefore, lastCall.deliveredBefore + 1})

\* a call that finalizes the recorder after an earlier call returned false
C1_Witness ==
  /\ calls >= 2
  /\ lastCall.ret = "true"
  /\ ~lastCall.completedBefore
  /\ Len(delivered) = 1

\* C2: once the recorder has finalized, every further ingest call returns
\* true and invokes no callback, and the event list, raw log, round
\* snapshots, round number and players stay what they were in the record
\* handed off.
C2_FinalizedFrozen ==
  completed =>
    /\ Len(delivered) = 1
    /\ delivered[1].cardEvents = cardEvents
    /\ delivered[1].rawLog = rawLog
    /\ delivered[1].snapshots = snapshots
    /\ delivered[1].rounds = roundNumber
    /\ delivered[1].players = players
    /\ (lastCall.completedBefore =>
          lastCall.ret = "true" /\ lastCall.deliveredBefore = 1)

\* a snapshot of this game with log entries and winners, ingested after
\* finalization
C2_Witness ==
  /\ calls > 0
  /\ lastCall.completedBefore
  /\ LastState.id = gameId
  /\ LastState.newMessages # <<>>
  /\ LastState.winners # <<>>

\* C3: a matching snapshot ingested by a non-finalized recorder finalizes it
\* in that call iff its winners list is non-empty and the player pair is
\* known after the capture step; with non-empty winners and the pair
\* unknown the recorder stays un-finalized and ingest returns false.
C3_FinalizeIff ==
  Processed =>
    /\ completed <=> (Len(LastState.winners) > 0 /\ players # <<>>)
    /\ (Len(LastState.winners) > 0 /\ players = <<>> => lastCall.ret = "false")

\* C4: the record's winner is the single entry of the final snapshot's
\* winners list when it has one entry, and null for two or more entries.
\* (prevState is the final snapshot: finalize runs after line 199.)
C4_Winner ==
  \A i \in DOMAIN delivered :
    /\ prevState # <<>>
    /\ (Len(prevState[1].winners) = 1 => delivered[i].winner = prevState[1].winners[1])
    /\ (Len(prevState[1].winners) >= 2 => delivered[i].winner = Null)

C4_Witness ==
  /\ Len(delivered) = 1
  /\ Len(prevState[1].winners) = 2
  /\ delivered[1].winner = Null

\* C5: whenever the local player id and the players tuple are both set,
\* players[0] is the local player and players[1] is another player.
C5_LocalFirst ==
  (localPlayerId # Null /\ players # <<>>) =>
    /\ players[1].id = localPlayerId
    /\ players[2].id # players[1].id

\* the hint of a snapshot matches the key, the name or the id of one of its players
hintMatches(state) ==
  \E i \in DOMAIN state.keys :
    state.playerUpdate \in
      {state.keys[i], state.players[state.keys[i]].name, state.players[state.keys[i]].id}

\* C6: once set, the local player id, the players tuple, the limited-format
\* flag and the format never change; a resolution that fails leaves the local
\* player id unset, and a later snapshot whose hint matches resolves it.
C6_ResolvedOnce ==
  calls > 0 =>
    /\ (lastCall.localBefore # Null => localPlayerId = lastCall.localBefore)
    /\ (lastCall.playersBefore # <<>> =>
          /\ players = lastCall.playersBefore
          /\ format = lastCall.formatBefore
          /\ isLimitedFormat = lastCall.limitedBefore)
    /\ (Processed /\ lastCall.localBefore = Null /\ LastState.playerUpdate # Null =>
          IF hintMatches(LastState)
            THEN /\ localPlayerId \in DOMAIN LastState.players
                 /\ LastState.playerUpdate \in
                      {localPlayerId, LastState.players[localPlayerId].name,
                       LastState.players[localPlayerId].id}
            ELSE localPlayerId = Null)

\* with the pair captured and the local player resolved, a later snapshot
\* carries another game mode, another deck size and a hint naming the other player
C6_Witness ==
  /\ Processed
  /\ lastCall.localBefore = "p2"
  /\ lastCall.playersBefore # <<>>
  /\ LastState.playerUpdate = "id1"
  /\ LastState.gameMode # format
  /\ "p2" \in DOMAIN LastState.players
  /\ LastState.players["p2"].numCardsInDeck # players[1].deckSize

\* C7: the round number never decreases, and it is at least 1 in every state
\* reached after a snapshot with phase 'action' has been ingested.
C7_RoundMonotoneFromOne ==
  calls > 0 =>
    /\ roundNumber >= lastCall.roundBefore
    /\ (prevPhase = Action => roundNumber >= 1)
    /\ (Processed /\ LastState.phase = Action => roundNumber >= 1)

\* C8: every card event of the cumulative list has roundNumber at least 1.
C8_EventRoundsFromOne ==
  \A i \in DOMAIN cardEvents : cardEvents[i].roundNumber >= 1

\* C9: all the events one ingest call appends carry the same round number.
C9_OneRoundPerCall ==
  calls > 0 =>
    \A i, j \in (lastCall.eventsBefore + 1)..Len(cardEvents) :
      cardEvents[i].roundNumber = cardEvents[j].roundNumber

\* the events of a diff that were derived from card instance u of player k
eventsOf(events, k, u, metric) ==
  {i \in DOMAIN events :
     events[i].playerId = k /\ events[i].uuid = u /\ events[i].metric = metric}

\* C10: a uuid of a diffed player that is in the previous hand, absent from
\* the next hand and newly in the ground or space arena yields exactly one
\* played event and no discarded or resourced event in that diff.
C10_DiffConservation ==
  (diffOut.ran /\ ~diffOut.threw) =>
    \A k \in {"p1", "p2"} : \A u \in Uuids :
      LET p0 == diffIn[1].prev.players[k]
          p1 == diffIn[1].next.players[k]
      IN (/\ diffIn[1].ctx.localPlayerId \in {Null, k}
          /\ u \in p0.hand /\ u \notin p1.hand
          /\ u \notin (p0.groundArena \cup p0.spaceArena)
          /\ u \in (p1.groundArena \cup p1.spaceArena))
         => /\ Cardinality(eventsOf(diffOut.events, k, u, "played")) = 1
            /\ eventsOf(diffOut.events, k, u, "discarded") = {}
            /\ eventsOf(diffOut.events, k, u, "resourced") = {}

\* the indices of the drawn events of player k
drawnOf(events, k) ==
  {i \in DOMAIN events : events[i].playerId = k /\ events[i].metric = "drawn"}

RECURSIVE sumCount(_, _)
sumCount(events, I) ==
  IF I = {} THEN 0
  ELSE LET i == CHOOSE x \in I : TRUE
       IN events[i].count + sumCount(events, I \ {i})

\* C11: when the deck count of a diffed player decreases by N > 0, the counts
\* of the drawn events produced for that player sum to exactly N.
C11_DrawCountExact ==
  (diffOut.ran /\ ~diffOut.threw) =>
    \A k \in {"p1", "p2"} :
      LET p0 == diffIn[1].prev.players[k]
          p1 == diffIn[1].next.players[k]
          N == p0.numCardsInDeck - p1.numCardsInDeck
      IN (diffIn[1].ctx.localPlayerId \in {Null, k} /\ N > 0)
           => sumCount(diffOut.events, drawnOf(diffOut.events, k)) = N

\* C12: when the deck count of a player (the opponent included) decreases by
\* N > 0 and no new uuid is visible in that player's hand, the diff yields
\* exactly one drawn event for that player, with cardId '__unknown__' and
\* count N.
C12_UnknownDraw ==
  (diffOut.ran /\ ~diffOut.threw) =>
    \A k \in {"p1", "p2"} :
      LET p0 == diffIn[1].prev.players[k]
          p1 == diffIn[1].next.players[k]
          N == p0.numCardsInDeck - p1.numCardsInDeck
      IN (N > 0 /\ p1.hand \subseteq p0.hand)
           => /\ Cardinality(drawnOf(diffOut.events, k)) = 1
              /\ \A i \in drawnOf(diffOut.events, k) :
                   diffOut.events[i].cardId = "__unknown__" /\ diffOut.events[i].count = N

\* C13: while the player pair is not resolvable (no ingested snapshot had two
\* player keys) every ingest call returns false, the cumulative event list
\* stays empty and no Round Snapshot is captured.
C13_NoPairNothing ==
  players = <<>> =>
    /\ calls > 0 => lastCall.ret = "false"
    /\ cardEvents = <<>>
    /\ snapshots = <<>>

\* C13, amended: while the player pair is not resolvable every ingest call
\* returns false, no Round Snapshot is captured, the round counter stays 0 and
\* nothing is finalized; the event list is not kept empty, it receives the
\* events of the log entries and of the differencing of those snapshots.
C13_NoPairNoRound ==
  players = <<>> =>
    /\ calls > 0 => lastCall.ret = "false"
    /\ snapshots = <<>>
    /\ roundNumber = 0
    /\ ~completed
    /\ delivered = <<>>
    /\ \A i \in DOMAIN cardEvents :
         cardEvents[i].gameId = gameId /\ cardEvents[i].playerId = "p1"

C13_Witness ==
  /\ players = <<>>
  /\ calls >= 2
  /\ lastCall.ret = "false"
  /\ Len(LastState.winners) > 0
  /\ LastState.phase = "action"
  /\ \E i, j \in DOMAIN cardEvents :
       cardEvents[i].metric = "activated" /\ cardEvents[j].metric = "played"

\* C14: while the local player is unresolved no player pair is captured, no
\* differencing is performed and no round is tracked (the round counter stays
\* 0 and no Round Snapshot is captured).
C14_UnresolvedNothing ==
  localPlayerId = Null =>
    /\ players = <<>>
    /\ roundNumber = 0
    /\ snapshots = <<>>
    /\ \A i \in DOMAIN cardEvents : cardEvents[i].metric = "activated"

\* C18: when diffSnapshots throws during an ingest call the call completes:
\* no diff event is appended, the log events and the round tracking of the
\* call are kept, the snapshot becomes the previous snapshot and the
\* completion check runs.
C18_DiffThrowKept ==
  (calls > 0 /\ lastCall.diffThrew) =>
    LET logEvents == parseLogEntries(gameId, Max(1, lastCall.roundBefore),
                                     LastState.newMessages)
        boundary == /\ LastState.phase = "action"
                    /\ lastCall.prevPhaseBefore # "action"
                    /\ players # <<>>
        ended == Len(LastState.winners) > 0 /\ players # <<>>
    IN /\ lastCall.ret \in {"true", "false"}
       /\ Len(cardEvents) = lastCall.eventsBefore + Len(logEvents)
       /\ \A i \in DOMAIN logEvents : cardEvents[lastCall.eventsBefore + i] = logEvents[i]
       /\ roundNumber = IF boundary THEN Max(lastCall.roundBefore + 1, 1)
                        ELSE lastCall.roundBefore
       /\ Len(snapshots) = lastCall.snapshotsBefore + (IF boundary THEN 1 ELSE 0)
       /\ prevState = <<LastState>>
       /\ prevPhase = LastState.phase
       /\ (lastCall.ret = "true") = ended
       /\ completed = ended
       /\ Len(delivered) = lastCall.deliveredBefore + (IF ended THEN 1 ELSE 0)

C18_Witness ==
  /\ calls > 0
  /\ lastCall.diffThrew
  /\ lastCall.ret = "true"
  /\ roundNumber > lastCall.roundBefore
  /\ Len(cardEvents) > lastCall.eventsBefore

\* C19: ingest never throws, whatever snapshot it is given, a snapshot in
\* which a player lacks card-pile data and which opens a new round included.
C19_IngestNeverThrows == calls > 0 => lastCall.ret # "threw"

\* C20: a frame built from the digit 4, the digit 2, an optional namespace
\* prefix, an optional numeric ack id and the JSON text of [E, P] parses back
\* to the event frame with event E and data [P].
C20_FrameRoundTrip ==
  (frameOut.ran /\ frameIn[1].kind = "event") =>
    frameOut.frame = <<Frame("event", frameIn[1].event, <<frameIn[1].payload>>)>>

C20_Witness ==
  /\ frameOut.ran
  /\ frameIn[1].kind = "event"
  /\ frameIn[1].event = <<"a", Quote>>
  /\ frameIn[1].payload.t = "arr"
  /\ startsWithAt(frameIn[1].raw, 3, <<"/", "g", "1", ",", "1", "2", "[">>)
  /\ frameOut.frame # <<>>

\* the recorders of game g held by a registry, and the payloads sent for game g
recordersOf(reg, g) == {reg[k][1] : k \in {x \in GameIds : reg[x] # <<>> /\ reg[x][1].gameId = g}}
sentOf(msgs, g) == SelectSeq(msgs, LAMBDA m : m.gameId = g)

\* C15: with the snapshots of several game ids interleaved, the registry holds
\* at most one recorder per game id, every recorder is kept under its own game
\* id and ingests only snapshots of that id, and each game's recorder and the
\* record sent for it are what they would be had that game's snapshots been
\* delivered alone in the same order.
C15_GamesIndependent ==
  /\ \A k \in GameIds : recorders[k] # <<>> => recorders[k][1].gameId = k
  /\ \A g \in GameIds :
       /\ Cardinality(recordersOf(recorders, g)) <= 1
       /\ recordersOf(recorders, g) = recordersOf(alone[g].reg, g)
       /\ sentOf(sent, g) = alone[g].sent
       /\ \A r \in recordersOf(recorders, g) :
            r.prevState # <<>> => r.prevState[1].id = g

C15_Witness ==
  /\ recorders["g1"] # <<>>
  /\ recorders["g1"][1].roundNumber = 1
  /\ Len(recorders["g1"][1].cardEvents) > 0
  /\ lastMsg.gameId = "g2"
  /\ lastMsg.ret = "true"
  /\ Len(sentOf(sent, "g2")) = 1
  /\ sent[1].cardEvents # <<>>

\* C16: while the tracking-enabled flag is false no recorder is created and no
\* snapshot is ingested by any recorder, a recorder created before tracking
\* was switched off included.
C16_DisabledIdle ==
  (messages > 0 /\ ~lastMsg.trackingBefore) => (~lastMsg.created /\ ~lastMsg.ingested)

\* C16, amended: while the tracking-enabled flag is false no recorder is
\* created and nothing is handed to persistence; only a recorder created
\* before tracking was switched off still ingests the snapshots of its game.
C16_DisabledNoCreation ==
  (messages > 0 /\ ~lastMsg.trackingBefore) =>
    /\ ~lastMsg.created
    /\ lastMsg.ingested => lastMsg.existedBefore
    /\ Len(sent) = lastMsg.sentBefore

C16_Witness ==
  /\ messages > 0
  /\ ~lastMsg.trackingBefore
  /\ lastMsg.ingested
  /\ lastMsg.ret = "true"
  /\ recorders[lastMsg.gameId] = <<>>
  /\ sent = <<>>

\* C17: over any sequence of snapshots at most one Game Record per game id is
\* handed to persistence.
C17_OneRecordPerGame ==
  \A g \in GameIds : Len(sentOf(sent, g)) <= 1

\* C21: a frame whose session-layer type is neither event nor ack parses to
\* the frame of type 'other', whatever follows the type digits; it does not
\* parse to null, the result of a parse failure.
C21_OtherFrames ==
  (frameOut.ran /\ frameIn[1].kind = "control") =>
    /\ frameOut.frame # <<>>
    /\ frameOut.frame = <<Frame("other", Undefined, <<>>)>>

C21_Witness ==
  /\ frameOut.ran
  /\ frameIn[1].kind = "control"
  /\ startsWithAt(frameIn[1].raw, 1, <<"4", "5", "/", "g", "1", ",", "7", "[">>)
  /\ frameOut.frame # <<>>

\* C22: an ingest call increments the round counter, by exactly 1, if and only
\* if the snapshot's phase is 'action', the previous phase was not 'action'
\* and the player pair is known; that call captures exactly one Round Snapshot
\* numbered with the new round. Every other call leaves the round counter and
\* the Round Snapshots as they were.
C22_RoundIff ==
  calls > 0 =>
    LET opens == /\ Processed
                 /\ LastState.phase = "action"
                 /\ lastCall.prevPhaseBefore # "action"
                 /\ players # <<>>
    IN IF opens
         THEN /\ roundNumber = lastCall.roundBefore + 1
              /\ Len(snapshots) = lastCall.snapshotsBefore + 1
              /\ snapshots[Len(snapshots)].round = roundNumber
         ELSE /\ roundNumber = lastCall.roundBefore
              /\ Len(snapshots) = lastCall.snapshotsBefore

\* C23: differencing is skipped only on the first ingested snapshot; every
\* later matching snapshot is diffed against the snapshot ingested just before
\* it, and the diff events are appended after the log events of the call.
C23_DiffSequencing ==
  Processed =>
    LET logEvents == parseLogEntries(gameId, Max(1, lastCall.roundBefore),
                                     LastState.newMessages)
        afterLog == lastCall.eventsBefore + Len(logEvents)
    IN /\ lastCall.seenBefore => lastCall.diffedLast
       /\ ~lastCall.seenBefore => ~lastCall.diffed
       /\ Len(cardEvents) >= afterLog
       /\ \A i \in DOMAIN logEvents : cardEvents[lastCall.eventsBefore + i] = logEvents[i]
       /\ \A i \in (afterLog + 1)..Len(cardEvents) : cardEvents[i].metric # "activated"

\* the deck size a player starts the game of a profile with: deck counts only
\* go down, so it is the largest count among the snapshots of that game
startingDeckSize(pr, k) ==
  LET counts == {st.players[k].numCardsInDeck :
                   st \in {x \in Snapshots(pr) : k \in DOMAIN x.players}}
  IN CHOOSE n \in counts : \A m \in counts : m <= n

\* C24: isLimitedFormat is true if and only if the smaller of the two players'
\* starting deck sizes is at most 35, whichever snapshot the player pair is
\* captured at.
C24_LimitedIffStartingDeck ==
  LET limited == Min(startingDeckSize(profile, "p1"), startingDeckSize(profile, "p2"))
                   <= LIMITED_DECK_SIZE_THRESHOLD
  IN /\ players # <<>> => (isLimitedFormat <=> limited)
     /\ \A i \in DOMAIN delivered : delivered[i].isLimitedFormat <=> limited

\* C25: for a uuid that leaves a diffed player's hand the diff emits at most
\* one event among played, resourced and discarded: played if the uuid is
\* newly in an arena, otherwise resourced if it is newly in resources,
\* otherwise played if it is newly in discard, otherwise none. A uuid newly in
\* discard that was not in the previous hand yields exactly one discarded
\* event and no played event.
C25_OneEventPerUuid ==
  (diffOut.ran /\ ~diffOut.threw) =>
    \A k \in {"p1", "p2"} : \A u \in Uuids :
      LET p0 == diffIn[1].prev.players[k]
          p1 == diffIn[1].next.players[k]
          left == u \in p0.hand /\ u \notin p1.hand
          arena == /\ u \notin (p0.groundArena \cup p0.spaceArena)
                   /\ u \in (p1.groundArena \cup p1.spaceArena)
          res == u \notin p0.resources /\ u \in p1.resources
          disc == u \notin p0.discard /\ u \in p1.discard
          played == Cardinality(eventsOf(diffOut.events, k, u, "played"))
          resourced == Cardinality(eventsOf(diffOut.events, k, u, "resourced"))
          discarded == Cardinality(eventsOf(diffOut.events, k, u, "discarded"))
      IN diffIn[1].ctx.localPlayerId \in {Null, k} =>
           /\ left =>
                /\ played + resourced + discarded <= 1
                /\ played = (IF arena \/ (~res /\ disc) THEN 1 ELSE 0)
                /\ resourced = (IF ~arena /\ res THEN 1 ELSE 0)
           /\ (disc /\ u \notin p0.hand) => (discarded = 1 /\ played = 0)

\* C26: every resourced event of the cumulative event list belongs to the
\* local player, players[0]; none is attributed to the opponent.
C26_ResourcedLocalOnly ==
  players # <<>> =>
    \A i \in DOMAIN cardEvents :
      cardEvents[i].metric = "resourced" => cardEvents[i].playerId = players[1].id

\* C27: in the finalized record the k-th Round Snapshot is that of round k,
\* and its logEntries and baseHpChanges are exactly the log entries and the HP
\* samples accumulated during round k, in arrival order.
C27_RoundBuffers ==
  \A i \in DOMAIN delivered : \A k \in DOMAIN delivered[i].snapshots :
    /\ delivered[i].snapshots[k].round = k
    /\ delivered[i].snapshots[k].logEntries = lastCall.perRound[k].logs
    /\ delivered[i].snapshots[k].baseHpChanges = lastCall.perRound[k].hps

\* an ingest step that takes the mid-round branch: the snapshot is processed,
\* the phase was and stays 'action', and the pair is known
midRoundCall ==
  /\ calls' = calls + 1
  /\ ~completed
  /\ lastCall'.ret # "threw"
  /\ lastCall'.state[1].id = gameId
  /\ lastCall'.state[1].phase = "action"
  /\ prevPhase = "action"
  /\ players' # <<>>

pairPresent ==
  /\ players'[1].id \in DOMAIN lastCall'.state[1].players
  /\ players'[2].id \in DOMAIN lastCall'.state[1].players

youHpNow == baseHpOf(lastCall'.state[1].players[players'[1].id])
oppHpNow == baseHpOf(lastCall'.state[1].players[players'[2].id])

sampleAppended ==
  currentRoundBaseHpChanges' =
    Append(currentRoundBaseHpChanges, [youHp |-> youHpNow, oppHp |-> oppHpNow])

C29_HandOffDetached ==
  [][ /\ Len(sent') > Len(sent) =>
           /\ messages' = messages + 1
           /\ Len(sent') = Len(sent) + 1
           /\ lastMsg'.ret = "true"
           /\ recorders'[recorderKey(lastMsg'.gameId)] = <<>>
           /\ handoffs'[Len(sent')] = "pending"
      /\ (messages' = messages /\ handoffs' # handoffs) =>
           /\ sent' = sent
           /\ recorders' = recorders
           /\ lastMsg' = lastMsg ]_vars

\* a hand-off has failed, and a frame handled after the failure completed
\* another game whose record was sent
C29_Witness ==
  /\ \E k \in DOMAIN handoffs : handoffs[k] = "failed"
  /\ lastMsg.failedBefore
  /\ lastMsg.ingested
  /\ lastMsg.ret = "true"
  /\ Len(sent) = lastMsg.sentBefore + 1

\* C30: a frame reaches a recorder only if it is an event named 'gamestate'
\* whose first data element is an object with id, players and an array-valued
\* winners; the listener's handling of any other frame leaves the registry,
\* every recorder in it and the records sent as they were.
C30_OnlyGameStateFrames ==
  [][ messages' = messages + 1 =>
        /\ (lastMsg'.ingested \/ lastMsg'.created) => lastMsg'.gameState
        /\ ~lastMsg'.gameState =>
             /\ recorders' = recorders
             /\ sent' = sent
             /\ ~lastMsg'.ingested ]_vars

\* a frame that is not a game state was handled while a recorder was active
C30_Witness ==
  /\ messages > 1
  /\ ~lastMsg.gameState
  /\ \E g \in GameIds : recorders[g] # <<>> /\ recorders[g][1].prevState # <<>>

\* what the log extractor is to make of an entry: a structured alert whose
\* text holds an activation keyword and whose parts hold a player reference
\* and a card reference
firstOfType(parts, type) ==
  CHOOSE i \in DOMAIN parts :
    /\ parts[i].kind = "obj" /\ parts[i].type = type
    /\ \A j \in 1..(i - 1) : ~(parts[j].kind = "obj" /\ parts[j].type = type)
qualifies(entry) ==
  /\ entry.alert
  /\ \E j \in DOMAIN ACTIVATION_KEYWORDS :
       includes(partsToText(entry.parts), ACTIVATION_KEYWORDS[j])
  /\ \E i \in DOMAIN entry.parts : entry.parts[i].kind = "obj" /\ entry.parts[i].type = "player"
  /\ \E i \in DOMAIN entry.parts : entry.parts[i].kind = "obj" /\ entry.parts[i].type = "card"
rankOf(entries, i) == Cardinality({j \in 1..i : qualifies(entries[j])})

\* C31: the extractor emits one activated event per qualifying entry and none
\* for any other entry (player chat included), attributed to the entry's first
\* player reference and first card reference, in the order of the entries.
C31_OneActivationPerAlert ==
  logOut.ran =>
    LET entries == logIn[1]
        events == logOut.events
    IN /\ Len(events) = rankOf(entries, Len(entries))
       /\ \A i \in DOMAIN entries :
            qualifies(entries[i]) =>
              LET e == events[rankOf(entries, i)]
                  pr == entries[i].parts[firstOfType(entries[i].parts, "player")]
                  cr == entries[i].parts[firstOfType(entries[i].parts, "card")]
              IN /\ e.metric = "activated" /\ e.count = 1
                 /\ e.playerId = pr.id /\ e.playerName = pr.name
                 /\ e.cardId = cr.id

\* a batch was extracted in which an alert with two player references produced
\* an event for the first of them and a player-chat entry with a keyword did not
C31_Witness ==
  /\ logOut.ran
  /\ Len(logIn[1]) = 2
  /\ Len(logOut.events) = 1
  /\ logIn[1][1] = chatEntry
  /\ logIn[1][2].alert
  /\ Cardinality({i \in DOMAIN logIn[1][2].parts : isPlayerObject(logIn[1][2].parts[i])}) = 2
  /\ logOut.events[1].playerId = "p2"

\* C32: after any sequence of ingest calls the number of captured Round
\* Snapshots equals the round counter and the k-th snapshot carries round k;
\* in a finalized record snapshots.length equals rounds.
C32_SnapshotPerRound ==
  /\ Len(snapshots) = roundNumber
  /\ \A k \in DOMAIN snapshots : snapshots[k].round = k
  /\ \A i \in DOMAIN delivered : Len(delivered[i].snapshots) = delivered[i].rounds

\* C33: a game state with a non-empty winners list whose game id has no
\* recorder in the registry creates no recorder and sends nothing; a record is
\* only ever sent by a recorder that was in the registry before the call.
C33_NoPhantomRecorder ==
  [][ messages' = messages + 1 =>
        /\ (lastMsg'.won /\ ~lastMsg'.existedBefore) =>
             /\ ~lastMsg'.created
             /\ ~lastMsg'.ingested
             /\ recorders' = recorders
             /\ sent' = sent
        /\ sent' # sent => lastMsg'.existedBefore ]_vars

\* a game's record was sent and its recorder removed, and a further state of
\* that game with winners set arrived while tracking was enabled
C33_Witness ==
  /\ lastMsg.won
  /\ ~lastMsg.existedBefore
  /\ lastMsg.trackingBefore
  /\ Len(sent) > 0
  /\ sent[Len(sent)].gameId = lastMsg.gameId
  /\ lastMsg.sentBefore = Len(sent)
  /\ recorders[recorderKey(lastMsg.gameId)] = <<>>

\* C34: when a recorder finalizes while the tracking-enabled flag is false,
\* nothing is handed to sendMessage and the recorder is removed from the
\* registry; a payload is only ever sent by a listener call whose ingest
\* finalized while the flag was true, so the discarded record is not sent
\* later either.
C34_DisabledFinalizeDiscarded ==
  [][ /\ (/\ messages' = messages + 1
          /\ lastMsg'.ingested
          /\ lastMsg'.ret = "true"
          /\ ~trackingEnabled) =>
           /\ sent' = sent
           /\ recorders'[recorderKey(lastMsg'.gameId)] = <<>>
      /\ sent' # sent =>
           /\ messages' = messages + 1
           /\ lastMsg'.ret = "true"
           /\ trackingEnabled ]_vars

\* a recorder created while tracking was on has just finalized with the flag
\* off: nothing was sent and the registry no longer holds it
C34_Witness ==
  /\ lastMsg.ingested
  /\ lastMsg.existedBefore
  /\ lastMsg.ret = "true"
  /\ ~lastMsg.trackingBefore
  /\ Len(sent) = lastMsg.sentBefore
  /\ recorders[recorderKey(lastMsg.gameId)] = <<>>

====
